---- MODULE Spec2Model ----
(***************************************************************************)
(* Model of txn_insights_agent/agent.py: the write-enabled function tool   *)
(* execute_confirmed_update and the BigQuery engine it talks to.           *)
(*                                                                         *)
(* A statement is a sequence of one-character strings.  Every invocation   *)
(* of the tool runs the function body line by line (pc), so invocations    *)
(* follow one another or interleave at every statement of the function.    *)
(***************************************************************************)
EXTENDS Integers, Sequences, FiniteSets, TLC

\* ---------------------------------------------------------------- bounds
MaxPad == 1     \* whitespace characters added around a statement
MaxRows == 1    \* largest affected-row count the engine reports

\* The invocations of the tool, in sequence or in parallel.
Calls == {"a", "b"}

\* ------------------------------------------------------------ characters
UpperChars == <<"A","C","D","E","I","L","N","P","R","S","T","U","X">>
LowerChars == <<"a","c","d","e","i","l","n","p","r","s","t","u","x">>

\* The characters str.strip() removes.
Whitespace == {" ", "\t", "\n"}

\* str.lower() on one character.
LowerChar(ch) ==
    IF \E i \in 1..Len(UpperChars) : UpperChars[i] = ch
    THEN LowerChars[CHOOSE i \in 1..Len(UpperChars) : UpperChars[i] = ch]
    ELSE ch

\* str.upper() on one character (used to build the inputs).
UpperChar(ch) ==
    IF \E i \in 1..Len(LowerChars) : LowerChars[i] = ch
    THEN UpperChars[CHOOSE i \in 1..Len(LowerChars) : LowerChars[i] = ch]
    ELSE ch

\* str.lower()
Lower(s) == [i \in 1..Len(s) |-> LowerChar(s[i])]

RECURSIVE LStrip(_)
LStrip(s) ==
    IF s # <<>> /\ Head(s) \in Whitespace THEN LStrip(Tail(s)) ELSE s

RECURSIVE RStrip(_)
RStrip(s) ==
    IF s # <<>> /\ s[Len(s)] \in Whitespace
    THEN RStrip(SubSeq(s, 1, Len(s) - 1))
    ELSE s

\* Variant of Strip that forgets the leading whitespace (str.rstrip()).
Strip_TrailingOnly(s) == RStrip(s)

\* str.strip()
Strip(s) == RStrip(LStrip(s))

\* str.startswith(prefix)
StartsWith(s, prefix) ==
    /\ Len(s) >= Len(prefix)
    /\ SubSeq(s, 1, Len(prefix)) = prefix

\* ------------------------------------------------------------ the guard
kwInsert == <<"i","n","s","e","r","t">>
kwUpdate == <<"u","p","d","a","t","e">>
kwDelete == <<"d","e","l","e","t","e">>

\* Variant of PermittedPrefixes without the insert test.
PermittedPrefixes_NoInsert == {kwUpdate, kwDelete}

\* The literals tested at line 154.
PermittedPrefixes == {kwInsert, kwUpdate, kwDelete}

\* query_lower = sql_query.strip().lower()
QueryLower(sql) == Lower(Strip(sql))

\* The condition of line 154, without its negation.
GuardPasses(q) == \E k \in PermittedPrefixes : StartsWith(q, k)

\* ------------------------------------------------------- result strings
Digits == <<"0","1","2","3","4","5","6","7","8","9">>

\* Decimal formatting of a natural number inside an f-string.
RECURSIVE IntToStr(_)
IntToStr(n) ==
    IF n < 10 THEN <<Digits[n + 1]>>
    ELSE IntToStr(n \div 10) \o <<Digits[(n % 10) + 1]>>

RejectionText ==
    << "Error: This tool can only be used for ", "INSERT", ", ", "UPDATE",
       ", or ", "DELETE",
       " statements. Use the execute_sql tool for SELECT queries." >>

CountText(n) ==
    <<"Operation successful, ">> \o IntToStr(n) \o <<" row(s) affected.">>

NoCountText ==
    <<"Operation successful, but the number of affected rows is not available.">>

\* Variant of SuccessText that formats a missing count as 0.
SuccessText_NoneAsZero(j) == CountText(j.count)

\* Lines 160-163.
SuccessText(j) ==
    IF j.has_count THEN CountText(j.count) ELSE NoCountText

ApiErrorText(e) == <<"An API error occurred: ", e.text>>

GeneralErrorText(e) == <<"A general error occurred: ", e.text>>

\* ------------------------------------------------------------ exceptions
\* The base class of each exception class the engine raises.
BaseOf(cls) ==
    CASE cls = "BadRequest" -> "GoogleAPICallError"
      [] cls = "GoogleAPICallError" -> "Exception"
      [] cls = "ConnectionResetError" -> "OSError"
      [] cls = "OSError" -> "Exception"
      [] OTHER -> "BaseException"

RECURSIVE IsInstance(_, _)
IsInstance(cls, target) ==
    \/ cls = target
    \/ cls # "BaseException" /\ IsInstance(BaseOf(cls), target)

\* Variant of HandlerText with the two except clauses in the other order.
HandlerText_GeneralFirst(e) ==
    IF IsInstance(e.type, "Exception") THEN GeneralErrorText(e)
    ELSE IF IsInstance(e.type, "GoogleAPICallError") THEN ApiErrorText(e)
    ELSE <<>>

\* Variant of HandlerText without the second except clause.
HandlerText_ApiOnly(e) ==
    IF IsInstance(e.type, "GoogleAPICallError") THEN ApiErrorText(e)
    ELSE <<>>

\* The except clauses of lines 164-167, in order; <<>> when none matches.
HandlerText(e) ==
    IF IsInstance(e.type, "GoogleAPICallError") THEN ApiErrorText(e)
    ELSE IF IsInstance(e.type, "Exception") THEN GeneralErrorText(e)
    ELSE <<>>

\* ------------------------------------------------------------ the engine
\* The exceptions the engine raises, with their str() text.
EngineErrors ==
    { [type |-> "BadRequest", text |-> "400 Syntax error"],
      [type |-> "ConnectionResetError", text |-> "Connection reset by peer"] }

NoExc == [type |-> "none", text |-> ""]
NoJob == [status |-> "none", has_count |-> FALSE, count |-> 0]
RunningJob == [status |-> "running", has_count |-> FALSE, count |-> 0]
FailedJob == [status |-> "failed", has_count |-> FALSE, count |-> 0]

\* What a finished job reports in num_dml_affected_rows.
FinishedJobs ==
    {[status |-> "done", has_count |-> TRUE, count |-> n] : n \in 0..MaxRows}
    \cup {[status |-> "done", has_count |-> FALSE, count |-> 0]}

\* ---------------------------------------------------------------- inputs
Pad(n, ch) == [i \in 1..n |-> ch]

Upper(s) == [i \in 1..Len(s) |-> UpperChar(s[i])]

Bodies ==
    { <<>>,
      <<"i","n","s","e","r","t"," ","t">>,
      <<"u","p","d","a","t","e"," ","t">>,
      <<"d","e","l","e","t","e"," ","t">>,
      <<"s","e","l","e","c","t"," ","t">>,
      <<"u","p","d","a","t","e","x"," ","t">> }

Cased(b) == {b, Upper(b)}

\* The statements the runtime passes to the tool.
Statements ==
    { Pad(l, " ") \o s \o Pad(r, "\n") :
        <<l, r, s>> \in { <<l, r, s>> \in (0..MaxPad) \X (0..MaxPad)
                              \X (UNION {Cased(b) : b \in Bodies}) :
                          l + r <= MaxPad } }

\* ----------------------------------------------------------------- state
VARIABLES
    pc,           \* where each invocation is in execute_confirmed_update
    sql_query,    \* the argument of the call
    query_lower,  \* the local of line 153
    submitted,    \* statements the engine received from the call
    job,          \* query_job of the call
    exc,          \* the exception the engine raised in the call
    result        \* the returned string, <<>> before the return

vars == <<pc, sql_query, query_lower, submitted, job, exc, result>>

Init ==
    /\ pc = [c \in Calls |-> "idle"]
    /\ sql_query = [c \in Calls |-> <<>>]
    /\ query_lower = [c \in Calls |-> <<>>]
    /\ submitted = [c \in Calls |-> <<>>]
    /\ job = [c \in Calls |-> NoJob]
    /\ exc = [c \in Calls |-> NoExc]
    /\ result = [c \in Calls |-> <<>>]

\* Line 143: the runtime calls the tool with a statement.
Invoke(c) ==
    /\ pc[c] = "idle"
    /\ \E s \in Statements : sql_query' = [sql_query EXCEPT ![c] = s]
    /\ pc' = [pc EXCEPT ![c] = "guard"]
    /\ UNCHANGED <<query_lower, submitted, job, exc, result>>

\* Variant of Guard that hands the statement to the engine before the test.
Guard_SubmitsFirst(c) ==
    /\ pc[c] = "guard"
    /\ query_lower' = [query_lower EXCEPT ![c] = QueryLower(sql_query[c])]
    /\ submitted' = [submitted EXCEPT ![c] = Append(@, sql_query[c])]
    /\ IF GuardPasses(QueryLower(sql_query[c]))
       THEN /\ pc' = [pc EXCEPT ![c] = "submit"]
            /\ UNCHANGED result
       ELSE /\ pc' = [pc EXCEPT ![c] = "done"]
            /\ result' = [result EXCEPT ![c] = RejectionText]
    /\ UNCHANGED <<sql_query, job, exc>>

\* Variant of Guard that refuses a statement while another job is running
\* (a module-level "busy" flag shared by the invocations).
Guard_WhileBusy(c) ==
    /\ pc[c] = "guard"
    /\ query_lower' = [query_lower EXCEPT ![c] = QueryLower(sql_query[c])]
    /\ IF /\ GuardPasses(QueryLower(sql_query[c]))
          /\ \A d \in Calls : job[d].status # "running"
       THEN /\ pc' = [pc EXCEPT ![c] = "submit"]
            /\ UNCHANGED result
       ELSE /\ pc' = [pc EXCEPT ![c] = "done"]
            /\ result' = [result EXCEPT ![c] = RejectionText]
    /\ UNCHANGED <<sql_query, submitted, job, exc>>

\* Lines 153-155.
Guard(c) ==
    /\ pc[c] = "guard"
    /\ query_lower' = [query_lower EXCEPT ![c] = QueryLower(sql_query[c])]
    /\ IF GuardPasses(QueryLower(sql_query[c]))
       THEN /\ pc' = [pc EXCEPT ![c] = "submit"]
            /\ UNCHANGED result
       ELSE /\ pc' = [pc EXCEPT ![c] = "done"]
            /\ result' = [result EXCEPT ![c] = RejectionText]
    /\ UNCHANGED <<sql_query, submitted, job, exc>>

\* Variant of QueryArg that passes the normalised copy.
QueryArg_Normalised(c) == query_lower[c]

\* The argument of bq_client.query at line 158.
QueryArg(c) == sql_query[c]

\* An exception reaches the except clauses of lines 164-167.
Raise(c, e) ==
    /\ exc' = [exc EXCEPT ![c] = e]
    /\ IF HandlerText(e) # <<>>
       THEN /\ pc' = [pc EXCEPT ![c] = "done"]
            /\ result' = [result EXCEPT ![c] = HandlerText(e)]
       ELSE /\ pc' = [pc EXCEPT ![c] = "raised"]
            /\ UNCHANGED result

\* Variant of Submit that never waits for the job (line 159 missing).
Submit_NoWait(c) ==
    /\ pc[c] = "submit"
    /\ submitted' = [submitted EXCEPT ![c] = Append(@, sql_query[c])]
    /\ \/ /\ job' = [job EXCEPT ![c] = RunningJob]
          /\ pc' = [pc EXCEPT ![c] = "read"]
          /\ UNCHANGED <<exc, result>>
       \/ /\ \E e \in EngineErrors : Raise(c, e)
          /\ UNCHANGED job
    /\ UNCHANGED <<sql_query, query_lower>>

\* Line 158: the engine receives the statement and returns a job or raises.
Submit(c) ==
    /\ pc[c] = "submit"
    /\ submitted' = [submitted EXCEPT ![c] = Append(@, QueryArg(c))]
    /\ \/ /\ job' = [job EXCEPT ![c] = RunningJob]
          /\ pc' = [pc EXCEPT ![c] = "wait"]
          /\ UNCHANGED <<exc, result>>
       \/ /\ \E e \in EngineErrors : Raise(c, e)
          /\ UNCHANGED job
    /\ UNCHANGED <<sql_query, query_lower>>

\* Line 159: query_job.result() returns when the job is done, or raises.
Wait(c) ==
    /\ pc[c] = "wait"
    /\ \/ /\ \E j \in FinishedJobs : job' = [job EXCEPT ![c] = j]
          /\ pc' = [pc EXCEPT ![c] = "read"]
          /\ UNCHANGED <<exc, result>>
       \/ /\ job' = [job EXCEPT ![c] = FailedJob]
          /\ \E e \in EngineErrors : Raise(c, e)
    /\ UNCHANGED <<sql_query, query_lower, submitted>>

\* Lines 160-163.
ReadCount(c) ==
    /\ pc[c] = "read"
    /\ result' = [result EXCEPT ![c] = SuccessText(job[c])]
    /\ pc' = [pc EXCEPT ![c] = "done"]
    /\ UNCHANGED <<sql_query, query_lower, submitted, job, exc>>

Next ==
    \E c \in Calls :
        \/ Invoke(c)
        \/ Guard(c)
        \/ Submit(c)
        \/ Wait(c)
        \/ ReadCount(c)

Spec == Init /\ [][Next]_vars

TypeOK ==
    /\ pc \in [Calls -> {"idle", "guard", "submit", "wait", "read", "done", "raised"}]
    /\ sql_query \in [Calls -> Statements \cup {<<>>}]
    /\ \A c \in Calls : job[c].status \in {"none", "running", "done", "failed"}

\* ------------------------------------------------- vocabulary of the claims
\* The guard has decided about the call.
Decided(c) == pc[c] \notin {"idle", "guard"}

\* The call returned a string.
Returned(c) == pc[c] = "done"

IsRejection(r) == r # <<>> /\ r[1] = "Error: This tool can only be used for "

IsSuccess(r) ==
    \/ r # <<>> /\ r[1] = "Operation successful, "
    \/ r = <<"Operation successful, but the number of affected rows is not available.">>

IsApiError(r) == r # <<>> /\ r[1] = "An API error occurred: "

IsGeneralError(r) == r # <<>> /\ r[1] = "A general error occurred: "

IsFailure(r) == IsApiError(r) \/ IsGeneralError(r)

Rejected(c) == Returned(c) /\ IsRejection(result[c])

Accepted(c) == Decided(c) /\ ~Rejected(c)

\* The text r contains the piece p.
Contains(r, p) == \E i \in 1..Len(r) : r[i] = p

\* The first whitespace-delimited token of a text.
RECURSIVE FirstToken(_)
FirstToken(s) ==
    IF s = <<>> \/ Head(s) \in Whitespace THEN <<>>
    ELSE <<Head(s)>> \o FirstToken(Tail(s))

\* The number a sequence of decimal digits denotes.
RECURSIVE DigitsToInt(_)
DigitsToInt(ds) ==
    IF ds = <<>> THEN 0
    ELSE 10 * DigitsToInt(SubSeq(ds, 1, Len(ds) - 1))
         + (CHOOSE n \in 0..9 : Digits[n + 1] = ds[Len(ds)])

\* The text r is the success text carrying the count k.
ReportsCount(r, k) ==
    /\ Len(r) >= 3
    /\ r[1] = "Operation successful, "
    /\ r[Len(r)] = " row(s) affected."
    /\ \A i \in 2..(Len(r) - 1) : \E n \in 0..9 : Digits[n + 1] = r[i]
    /\ DigitsToInt(SubSeq(r, 2, Len(r) - 1)) = k

\* Two characters are the same letter in either case.
SameLetter(x, y) ==
    \/ x = y
    \/ \E i \in 1..Len(UpperChars) : {x, y} = {UpperChars[i], LowerChars[i]}

\* t is s with whitespace added in front and behind and letters recased.
Variant(s, t) ==
    \E l \in 0..Len(t) : \E r \in 0..Len(t) :
        /\ l + Len(s) + r = Len(t)
        /\ \A i \in 1..l : t[i] \in Whitespace
        /\ \A i \in (Len(t) - r + 1)..Len(t) : t[i] \in Whitespace
        /\ \A i \in 1..Len(s) : SameLetter(s[i], t[l + i])

\* What the engine did in the call.
Response(c) == <<job[c], exc[c]>>

\* The statement kinds a rejection message names.
NamedKinds(r) == {r[i] : i \in 1..Len(r)} \cap {"INSERT", "UPDATE", "DELETE"}

\* -------------------------------------------------------------------- C1
\* C1: a statement whose first whitespace-delimited token, trimmed and
\* lower-cased, is not exactly insert, update or delete is rejected.
C1_FirstTokenMustEqualKeyword ==
    \A c \in Calls :
        /\ Decided(c)
        /\ FirstToken(Lower(Strip(sql_query[c]))) \notin {kwInsert, kwUpdate, kwDelete}
        => Rejected(c)

\* -------------------------------------------------------------------- C2
\* C2: a call that returns the policy rejection has handed nothing to the
\* engine: no statement submitted, no job created.
C2_RejectionNeverContactsEngine ==
    \A c \in Calls :
        IsRejection(result[c]) => submitted[c] = <<>> /\ job[c] = NoJob

C2_Witness ==
    \E c, d \in Calls :
        /\ Rejected(c) /\ sql_query[c] # <<>>
        /\ Accepted(d) /\ submitted[d] # <<>>

\* -------------------------------------------------------------------- C3
\* C3: a statement that passed the guard is submitted exactly once, also
\* when the engine raises, and the submitted text is the argument itself.
C3_OneVerbatimSubmission ==
    \A c \in Calls :
        /\ pc[c] = "submit" => submitted[c] = <<>>
        /\ Accepted(c) /\ pc[c] # "submit" => submitted[c] = <<sql_query[c]>>

C3_Witness ==
    \E c, d \in Calls :
        /\ Returned(c) /\ IsFailure(result[c])
        /\ submitted[c] = <<sql_query[c]>>
        /\ sql_query[c] # Strip(sql_query[c])
        /\ sql_query[c] # Lower(sql_query[c])
        /\ Returned(d) /\ IsSuccess(result[d]) /\ Len(submitted[d]) = 1

\* -------------------------------------------------------------------- C4
\* C4: when the job completed, a reported count k (0 included) gives the
\* success text carrying exactly k, and a missing count gives the "not
\* available" text, never a text reporting 0 rows.
C4_CountOrNotAvailable ==
    \A c \in Calls :
        Returned(c) /\ job[c].status = "done" =>
            IF job[c].has_count
            THEN ReportsCount(result[c], job[c].count)
            ELSE /\ IsSuccess(result[c])
                 /\ Contains(result[c], "Operation successful, but the number of affected rows is not available.")
                 /\ \A k \in 0..MaxRows : ~ReportsCount(result[c], k)

C4_Witness ==
    \E c, d \in Calls :
        /\ Returned(c) /\ job[c].status = "done"
        /\ job[c].has_count /\ job[c].count = 0
        /\ Returned(d) /\ job[d].status = "done" /\ ~job[d].has_count

\* -------------------------------------------------------------------- C5
\* C5: when the engine raises its typed API error, at submission or while
\* waiting, the call returns the "API error" text with the engine's detail,
\* never the generic-failure text or a success text.
C5_ApiErrorText ==
    \A c \in Calls :
        exc[c].type \in {"BadRequest", "GoogleAPICallError"} =>
            /\ Returned(c)
            /\ IsApiError(result[c])
            /\ Contains(result[c], exc[c].text)
            /\ ~IsGeneralError(result[c]) /\ ~IsSuccess(result[c])

C5_Witness ==
    \E c, d \in Calls :
        /\ exc[c].type = "BadRequest" /\ job[c].status = "none"
        /\ exc[d].type = "BadRequest" /\ job[d].status = "failed"
        /\ Returned(c) /\ Returned(d)

\* -------------------------------------------------------------------- C6
\* C6: no call raises past the function: a finished call returned a text
\* in exactly one of the categories rejection, success, failure; and an
\* exception other than the typed API error gives the generic-failure text
\* with the exception text.
C6_NeverRaisesPastBoundary ==
    \A c \in Calls :
        /\ pc[c] # "raised"
        /\ Returned(c) =>
              Cardinality({k \in {"rejection", "success", "failure"} :
                  \/ k = "rejection" /\ IsRejection(result[c])
                  \/ k = "success" /\ IsSuccess(result[c])
                  \/ k = "failure" /\ IsFailure(result[c])}) = 1
        /\ exc[c].type = "ConnectionResetError" =>
              /\ Returned(c)
              /\ IsGeneralError(result[c])
              /\ Contains(result[c], exc[c].text)

C6_Witness ==
    \E c, d \in Calls :
        /\ exc[c].type = "ConnectionResetError" /\ job[c].status = "failed"
        /\ Returned(c)
        /\ Rejected(d)

\* -------------------------------------------------------------------- C7
\* C7: two statements that differ only in leading/trailing whitespace and
\* letter case (the same text included) get the same accept/reject decision.
C7_DecisionIgnoresWhitespaceAndCase ==
    \A c, d \in Calls :
        /\ Decided(c) /\ Decided(d)
        /\ Variant(sql_query[c], sql_query[d])
        => (Rejected(c) <=> Rejected(d))

C7_Witness ==
    \E c, d \in Calls :
        /\ Accepted(c) /\ Accepted(d)
        /\ Variant(sql_query[c], sql_query[d])
        /\ Len(sql_query[c]) < Len(sql_query[d])
        /\ Head(sql_query[d]) \in Whitespace
        /\ \E i \in 1..Len(sql_query[c]) : sql_query[c][i] # sql_query[d][i + 1]

\* -------------------------------------------------------------------- C8
\* C8 as stated: with the permitted set {update, delete}, an INSERT
\* statement is rejected without contacting the database, by a message
\* naming update and delete.
C8_InsertRejectedUnderUpdateDelete ==
    \A c \in Calls :
        Decided(c) /\ FirstToken(Lower(Strip(sql_query[c]))) = kwInsert =>
            /\ Rejected(c)
            /\ submitted[c] = <<>>
            /\ NamedKinds(result[c]) = {"UPDATE", "DELETE"}

\* C8 amended: the permitted kinds are fixed to insert, update and delete:
\* an INSERT statement passes the guard and is submitted, and every
\* rejection contacts the database zero times and names INSERT, UPDATE
\* and DELETE.
C8_PermittedKindsAreFixed ==
    \A c \in Calls :
        /\ Decided(c) /\ FirstToken(Lower(Strip(sql_query[c]))) = kwInsert =>
              /\ ~Rejected(c)
              /\ pc[c] # "submit" => submitted[c] = <<sql_query[c]>>
        /\ Rejected(c) =>
              /\ submitted[c] = <<>>
              /\ NamedKinds(result[c]) = {"INSERT", "UPDATE", "DELETE"}

C8_Witness ==
    \E c, d \in Calls :
        /\ FirstToken(Lower(Strip(sql_query[c]))) = kwInsert
        /\ sql_query[c] # Lower(sql_query[c])
        /\ Returned(c) /\ IsSuccess(result[c])
        /\ Rejected(d)

\* -------------------------------------------------------------------- C9
\* C9: within a call the steps run in the order guard, submit, wait, read,
\* return: a success text is returned only after the wait finished without
\* raising, a job that failed during the wait gives a failure text, and
\* nothing is returned while the job is running.
C9_StepOrder ==
    { <<"idle", "guard">>, <<"guard", "submit">>, <<"guard", "done">>,
      <<"submit", "wait">>, <<"submit", "done">>, <<"wait", "read">>,
      <<"wait", "done">>, <<"read", "done">> }

C9_StateOrder ==
    \A c \in Calls :
        /\ IsSuccess(result[c]) => job[c].status = "done" /\ exc[c] = NoExc
        /\ job[c].status = "failed" => Returned(c) /\ IsFailure(result[c])
        /\ job[c].status = "running" => pc[c] = "wait" /\ result[c] = <<>>
        /\ pc[c] = "read" => job[c].status = "done"

C9_SynchronousOrder ==
    /\ []C9_StateOrder
    /\ [][\A c \in Calls : pc'[c] # pc[c] => <<pc[c], pc'[c]>> \in C9_StepOrder]_vars

C9_Witness ==
    \E c, d \in Calls :
        /\ Returned(c) /\ IsSuccess(result[c]) /\ job[c].status = "done"
        /\ Returned(d) /\ IsFailure(result[d]) /\ job[d].status = "failed"

\* ------------------------------------------------------------------- C10
\* C10: no state is kept between invocations: in any sequence or
\* interleaving, the guard's decision and the submitted statement depend
\* only on the call's argument, and the result only on the argument and
\* the engine's response to that call.
C10_Stateless ==
    \A c, d \in Calls :
        sql_query[c] = sql_query[d] =>
            /\ Decided(c) /\ Decided(d) => (Rejected(c) <=> Rejected(d))
            /\ pc[c] \notin {"idle", "guard", "submit"}
               /\ pc[d] \notin {"idle", "guard", "submit"}
               => submitted[c] = submitted[d]
            /\ Returned(c) /\ Returned(d) /\ Response(c) = Response(d)
               => result[c] = result[d]

C10_Witness ==
    \E c, d \in Calls :
        /\ c # d
        /\ sql_query[c] = sql_query[d]
        /\ Returned(c) /\ IsFailure(result[c]) /\ job[c].status = "failed"
        /\ pc[d] = "wait" /\ job[d].status = "running"
====
